---- MODULE Spec2Model ----
(***************************************************************************)
(* flask-restless-datamodel: the schema reflection and composition code.   *)
(*                                                                         *)
(*   render.py     get_is_valid_validator, ClassDefinitionRenderer,        *)
(*                 DataModelRenderer (render, flag_inheritance_models,     *)
(*                 resolve_inheritance)                                    *)
(*   datamodel.py  DataModel (init, register_model,                        *)
(*                 intercept_and_return_datamodel)                         *)
(*                                                                         *)
(* A Python str that the code splits (a column name, a relation key, an    *)
(* entry of included/excluded) is a sequence of one-character strings.     *)
(* Other str values (type tags, class names, identities) are TLA+ strings. *)
(* A Python dict is a function; its key set is the function's DOMAIN.      *)
(***************************************************************************)
EXTENDS Integers, Sequences, FiniteSets, TLC

VARIABLES
    mode,       \* which entry point this behaviour exercises
    pc,         \* position of the running call
    included,   \* get_is_valid_validator: the included list
    excluded,   \* get_is_valid_validator: the excluded list
    column,     \* is_valid: its argument
    valid,      \* is_valid: its return value
    classes,    \* the declared model classes, by __name__
    kwargs,     \* ClassDefinitionRenderer.render: its keyword arguments
    rendered,   \* ClassDefinitionRenderer.render: its outcome
    models,     \* DataModelRenderer.render: its models argument, in dict order
    data_model, \* DataModelRenderer.render: its local data_model
    flagged_for_inheritence, \* DataModelRenderer.render: in insertion order
    idx,        \* DataModelRenderer.render: entries the running loop has done
    err,        \* the exception the call raised, or "none"
    polymorphic_info, \* DataModel.polymorphic_info
    local,      \* register_model: its locals render and polymorphic_info
    served,     \* the DataModel blueprint exists: requests reach the preprocessor
    response,   \* the body of the last response built since init was entered
    before,     \* what a response would have held when init was entered
    inits,      \* the calls of DataModel.init so far
    pending,    \* the models whose class changed since they were registered
    again,      \* some model has been registered a second time
    changes     \* the changes made to the models since the DataModel was built

vars == <<mode, pc, included, excluded, column, valid, classes, kwargs, rendered,
          models, data_model, flagged_for_inheritence, idx, err,
          polymorphic_info, local, served, response, before, inits, pending, again,
          changes>>

filterVars == <<included, excluded, column, valid>>
classVars == <<kwargs, rendered>>
renderVars == <<models, data_model, flagged_for_inheritence, idx, err>>
registerVars ==
    <<polymorphic_info, local, served, response, before, inits, pending, again, changes>>

(***************************************************************************)
(* Python values                                                           *)
(***************************************************************************)

\* Python None where a str is expected: differs from every sequence of
\* one-character strings.
None == <<"None">>

\* The empty dict.
EmptyDict == [k \in {} |-> None]

\* dict.update(other): other's entries replace the receiver's on equal keys.
DictUpdate(d, other) ==
    [k \in DOMAIN d \cup DOMAIN other |-> IF k \in DOMAIN other THEN other[k] ELSE d[k]]

\* d[k] = v on a dict.
DictSet(d, k, v) == [x \in DOMAIN d \cup {k} |-> IF x = k THEN v ELSE d[x]]

\* The variables of an entry point the behaviour does not exercise.
FilterUnused == included = {} /\ excluded = {} /\ column = <<>> /\ valid = FALSE
ClassUnused == kwargs = EmptyDict /\ rendered = EmptyDict
RenderUnused ==
    /\ models = <<>>
    /\ data_model = EmptyDict
    /\ flagged_for_inheritence = <<>>
    /\ idx = 0
    /\ err = "none"
RegisterUnused ==
    /\ polymorphic_info = EmptyDict
    /\ local = EmptyDict
    /\ served = FALSE
    /\ response = EmptyDict
    /\ before = EmptyDict
    /\ inits = 0
    /\ pending = {}
    /\ again = FALSE
    /\ changes = 0

(***************************************************************************)
(* render.py: get_is_valid_validator                                       *)
(***************************************************************************)

\* str.split('.') from position i on, cur being the segment read so far.
RECURSIVE SplitFrom(_, _, _)
SplitFrom(s, i, cur) ==
    IF i > Len(s) THEN <<cur>>
    ELSE IF s[i] = "." THEN <<cur>> \o SplitFrom(s, i + 1, <<>>)
    ELSE SplitFrom(s, i + 1, Append(cur, s[i]))

\* column.split('.')
split(s) == SplitFrom(s, 1, <<>>)

\* A slip in the index: the first segment instead of the last.
is_valid_first_segment(incl, excl, col) ==
    LET c == split(col)[1]
        valid_excl == IF excl # {} THEN c \notin excl ELSE TRUE
        valid_incl == IF incl # {} THEN c \in incl ELSE TRUE
    IN  valid_excl /\ valid_incl

\* The closure is_valid returned by get_is_valid_validator(included, excluded).
\* A list is used only for its truth value and for membership: a set.
is_valid(incl, excl, col) ==
    LET c == split(col)[Len(split(col))]
        valid_excl == IF excl # {} THEN c \notin excl ELSE TRUE
        valid_incl == IF incl # {} THEN c \in incl ELSE TRUE
    IN  valid_excl /\ valid_incl

(***************************************************************************)
(* render.py: ClassDefinitionRenderer                                      *)
(*                                                                         *)
(* A model class is a record of what the code reads from it:               *)
(*   bases          __bases__, a sequence of class names; "Model" is       *)
(*                  db.Model and "Mixin" a class that is no db.Model       *)
(*   has_mapper_args, mapper_args   the class's own __mapper_args__        *)
(*   pk             what primary_key_name(model) returns                   *)
(*   columns        __table__.columns: column.name -> type tag             *)
(*   relationships  sqla_inspect(model).relationships: key -> property     *)
(*   hybrids        the hybrid_property descriptors, by __name__           *)
(*   proxies        the AssociationProxy entries of __dict__: key -> proxy *)
(***************************************************************************)

\* The outcome of a call: a returned value or a raised exception.
Return(v) == [err |-> "none", val |-> v]
Raise(e) == [err |-> e, val |-> EmptyDict]

\* render_attributes: a column passes under its table name.
render_attributes(cls, incl, excl) ==
    [n \in {c \in DOMAIN cls.columns : is_valid(incl, excl, c)} |-> cls.columns[n]]

\* The relation descriptor of one relationship property: 'backref' is always
\* set, to rel.back_populates (None if not declared); 'local_column' is added
\* for MANYTOONE.
relation_entry(rel) ==
    LET direction == IF rel.direction = "ONETOMANY" /\ ~rel.uselist
                     THEN "ONETOONE" ELSE rel.direction
        entry == [foreign_model |-> rel.target,
                  relation_type |-> direction,
                  backref |-> rel.back_populates]
    IN  IF rel.direction = "MANYTOONE"
        THEN ("local_column" :> rel.local_column) @@ entry
        ELSE entry

\* render_relations
render_relations(cls, incl, excl) ==
    [k \in {r \in DOMAIN cls.relationships : is_valid(incl, excl, r)} |->
        relation_entry(cls.relationships[k])]

\* render_hybrid_properties: is_valid is handed the hybrid_property object
\* itself, which has no split attribute, so the first hybrid property raises
\* AttributeError; without any the result is the empty dict.
render_hybrid_properties(cls, incl, excl) ==
    IF cls.hybrids = {} THEN Return(EmptyDict) ELSE Raise("AttributeError")

\* render_association_proxies, first loop: the proxies whose remote attribute
\* has a property.
kept_proxies(cls) == {k \in DOMAIN cls.proxies : cls.proxies[k].remote # "noproperty"}

\* render_association_proxies, second loop, the relations it writes: a proxy
\* onto a relationship. Proxies are not filtered.
proxy_relations(cls) ==
    [k \in {p \in kept_proxies(cls) : cls.proxies[p].remote = "relationship"} |->
        [foreign_model |-> cls.proxies[k].remote_class,
         relation_type |-> IF cls.proxies[k].scalar THEN "MANYTOONE" ELSE "ONETOMANY",
         is_proxy |-> TRUE]]

\* render_association_proxies, second loop, the attributes it writes: a proxy
\* onto a column.
proxy_attributes(cls) ==
    [k \in {p \in kept_proxies(cls) : cls.proxies[p].remote = "column"} |->
        cls.proxies[k].type]

\* ClassDefinitionRenderer.render
ClassRender(cls, kw) ==
    LET attribute_dict == render_attributes(cls, kw.included, kw.excluded)
        foreign_keys == render_relations(cls, kw.included, kw.excluded)
        hybrid == render_hybrid_properties(cls, kw.included, kw.excluded)
    IN  IF hybrid.err # "none" THEN Raise(hybrid.err)
        ELSE Return([pk_name |-> cls.pk,
                     collection_name |-> kw.collection_name,
                     attributes |-> DictUpdate(DictUpdate(attribute_dict, hybrid.val),
                                               proxy_attributes(cls)),
                     relations |-> DictUpdate(foreign_keys, proxy_relations(cls))])

(***************************************************************************)
(* render.py: DataModelRenderer                                            *)
(***************************************************************************)

NoMapperArgs == [k \in {} |-> ""]

\* model.__mapper_args__ by Python attribute lookup: the class's own, else the
\* first found along its bases; db.Model and a mixin have none.
RECURSIVE mapper_args_lookup(_), mapper_args_of_bases(_, _)
mapper_args_lookup(name) ==
    IF name \notin DOMAIN classes THEN [found |-> FALSE, args |-> NoMapperArgs]
    ELSE IF classes[name].has_mapper_args
         THEN [found |-> TRUE, args |-> classes[name].mapper_args]
         ELSE mapper_args_of_bases(classes[name].bases, 1)

mapper_args_of_bases(bases, i) ==
    IF i > Len(bases) THEN [found |-> FALSE, args |-> NoMapperArgs]
    ELSE IF mapper_args_lookup(bases[i]).found THEN mapper_args_lookup(bases[i])
         ELSE mapper_args_of_bases(bases, i + 1)

\* The loop over model.__bases__: the last base that is a subclass of
\* db.Model other than db.Model itself, "" standing for parent = None.
RECURSIVE parent_of_bases(_, _, _)
parent_of_bases(bases, i, parent) ==
    IF i > Len(bases) THEN parent
    ELSE parent_of_bases(bases, i + 1,
                         IF bases[i] \in DOMAIN classes THEN bases[i] ELSE parent)

\* What flag_inheritance_models returns for "nothing": None.
NoInfo == [k \in {} |-> ""]

\* flag_inheritance_models
flag_inheritance_models(name) ==
    LET own == mapper_args_lookup(name)
        is_polymorphic == own.found /\ "polymorphic_identity" \in DOMAIN own.args
        parent == parent_of_bases(classes[name].bases, 1, "")
        pargs == mapper_args_lookup(parent)
    IN  IF ~is_polymorphic \/ parent = "" THEN Return(NoInfo)
        ELSE IF ~pargs.found THEN Raise("AttributeError")
        ELSE IF "polymorphic_on" \notin DOMAIN pargs.args THEN Raise("KeyError")
        ELSE Return([on |-> pargs.args["polymorphic_on"],
                     parent |-> parent,
                     identity |-> own.args["polymorphic_identity"]])

\* method_renderer.methods[name]: the methods are rendered elsewhere and none
\* is declared here.
NoMethods == [k \in {} |-> ""]

\* The state of DataModelRenderer.render between two loop iterations.
RenderState(dm, flagged, e) == [data_model |-> dm, flagged |-> flagged, err |-> e]

\* One iteration of the first loop of render, on the entry m of models.
render_model(st, m) ==
    LET model_render == ClassRender(classes[m.model], m.kwargs)
        inheriting_from == flag_inheritance_models(m.model)
    IN  IF model_render.err # "none"
        THEN RenderState(st.data_model, st.flagged, model_render.err)
        ELSE IF inheriting_from.err # "none"
        THEN RenderState(st.data_model, st.flagged, inheriting_from.err)
        ELSE RenderState(
                DictSet(st.data_model, m.model,
                        ("methods" :> NoMethods) @@ model_render.val),
                IF DOMAIN inheriting_from.val # {}
                THEN Append(st.flagged, [model |-> m.model, info |-> inheriting_from.val])
                ELSE st.flagged,
                "none")

\* idef.setdefault('polymorphic', {})['on'] = on, then
\* idef['polymorphic'].setdefault('identities', {})[identity] = model
record_child(idef, on, identity, model) ==
    LET poly0 == IF "polymorphic" \in DOMAIN idef THEN idef.polymorphic ELSE EmptyDict
        poly1 == DictSet(poly0, "on", on)
        ids == IF "identities" \in DOMAIN poly1 THEN poly1.identities ELSE NoMethods
    IN  DictSet(idef, "polymorphic",
                DictSet(poly1, "identities", DictSet(ids, identity, model)))

\* resolve_inheritance: data_model[parent] raises KeyError when the parent
\* was not rendered.
resolve_inheritance(model, inheriting_from, dm) ==
    IF inheriting_from.parent \notin DOMAIN dm THEN Raise("KeyError")
    ELSE
        LET idef == dm[inheriting_from.parent]
            odef == dm[model]
            odef1 == [odef EXCEPT !.attributes = DictUpdate(@, idef.attributes),
                                  !.relations = DictUpdate(@, idef.relations)]
            odef2 == DictSet(odef1, "polymorphic", [parent |-> inheriting_from.parent])
            idef1 == record_child(idef, inheriting_from.on,
                                  inheriting_from.identity, model)
        IN  Return(DictSet(DictSet(dm, model, odef2), inheriting_from.parent, idef1))

\* One iteration of the second loop of render, on the entry f of
\* flagged_for_inheritence.
resolve_model(st, f) ==
    LET r == resolve_inheritance(f.model, f.info, st.data_model)
    IN  IF r.err # "none" THEN RenderState(st.data_model, st.flagged, r.err)
        ELSE RenderState(r.val, st.flagged, "none")

\* The first loop of render from entry i of ms on; an exception ends it.
RECURSIVE render_models_from(_, _, _)
render_models_from(st, ms, i) ==
    IF i > Len(ms) \/ st.err # "none" THEN st
    ELSE render_models_from(render_model(st, ms[i]), ms, i + 1)

\* The second loop of render from entry i of flagged_for_inheritence on.
RECURSIVE resolve_models_from(_, _)
resolve_models_from(st, i) ==
    IF i > Len(st.flagged) \/ st.err # "none" THEN st
    ELSE resolve_models_from(resolve_model(st, st.flagged[i]), i + 1)

\* DataModelRenderer.render(models, method_renderer)
render(ms) ==
    resolve_models_from(render_models_from(RenderState(EmptyDict, <<>>, "none"), ms, 1), 1)

(***************************************************************************)
(* Model classes                                                           *)
(***************************************************************************)

FieldNames == {<<"x">>, <<"y">>}

TypeTags == {"integer", "string"}

\* Relationship properties: MANYTOONE is scalar, MANYTOMANY a collection,
\* ONETOMANY either; back_populates is a relation name or None.
Relationships ==
    {r \in [direction : {"MANYTOONE", "ONETOMANY", "MANYTOMANY"},
            uselist : BOOLEAN,
            back_populates : {None, <<"r">>},
            target : {"T"},
            local_column : {<<"f", "k">>}] :
        /\ r.direction = "MANYTOONE" => ~r.uselist
        /\ r.direction = "MANYTOMANY" => r.uselist}

\* Association proxies: the remote attribute has no property, or its
\* property is a relationship or a column.
Proxies ==
    {p \in [remote : {"noproperty", "relationship", "column"},
            scalar : BOOLEAN,
            remote_class : {"T"},
            type : TypeTags] :
        /\ p.remote # "relationship" => p.scalar
        /\ p.remote # "column" => p.type = "integer"}

\* The dicts from a subset of keys to values.
Dicts(keys, values) == UNION {[ks -> values] : ks \in SUBSET keys}

\* The class bodies over the field names: relationship keys, hybrid names and
\* proxy keys are attributes of one class and so pairwise distinct; a column's
\* table name is not tied to the attribute it is mapped under.
ClassBodies ==
    {[columns |-> c, relationships |-> r, hybrids |-> h, proxies |-> p] :
        c \in Dicts(FieldNames, TypeTags), r \in Dicts(FieldNames, Relationships),
        h \in SUBSET FieldNames, p \in Dicts(FieldNames, Proxies)}

WellFormedBody(b) ==
    /\ DOMAIN b.relationships \cap b.hybrids = {}
    /\ DOMAIN b.relationships \cap DOMAIN b.proxies = {}
    /\ b.hybrids \cap DOMAIN b.proxies = {}

\* A class declared directly on db.Model, without __mapper_args__.
PlainClass(b) ==
    [bases |-> <<"Model">>, has_mapper_args |-> FALSE, mapper_args |-> NoMapperArgs,
     pk |-> <<"i", "d">>,
     columns |-> b.columns, relationships |-> b.relationships,
     hybrids |-> b.hybrids, proxies |-> b.proxies]

(***************************************************************************)
(* ClassDefinitionRenderer.render on one class                             *)
(***************************************************************************)

InitClass ==
    /\ mode = "class"
    /\ pc = "call"
    /\ \E b \in ClassBodies :
          /\ WellFormedBody(b)
          /\ classes = [n \in {"A"} |-> PlainClass(b)]
    /\ kwargs \in [collection_name : {"a"},
                   included : SUBSET FieldNames,
                   excluded : SUBSET FieldNames]
    /\ rendered = Return(EmptyDict)
    /\ FilterUnused
    /\ RenderUnused
    /\ RegisterUnused

CallClassRender ==
    /\ mode = "class"
    /\ pc = "call"
    /\ rendered' = ClassRender(classes["A"], kwargs)
    /\ pc' = "returned"
    /\ UNCHANGED <<mode, filterVars, classes, kwargs, renderVars, registerVars>>

NextClass == CallClassRender

SpecClass == InitClass /\ [][NextClass]_vars

(***************************************************************************)
(* DataModelRenderer.render on a class hierarchy                           *)
(***************************************************************************)

ClassNames == {"A", "B", "C"}

\* The bases a class may name: db.Model, or a class declared before it.
BasesOf ==
    [A |-> {<<"Model">>},
     B |-> {<<"Model">>, <<"A">>},
     C |-> {<<"Model">>, <<"A">>, <<"B">>}]

IdentityOf == [A |-> "a", B |-> "b", C |-> "c"]

DiscriminatorOf == [A |-> "type", B |-> "kind", C |-> "sort"]

\* The __mapper_args__ a class may declare: none, or a dict with
\* polymorphic_identity, polymorphic_on, or both.
MapperArgsOf(n) ==
    {[has |-> FALSE, args |-> NoMapperArgs]} \cup
    {[has |-> TRUE, args |-> a] :
        a \in {[polymorphic_identity |-> IdentityOf[n]],
               [polymorphic_on |-> DiscriminatorOf[n]],
               [polymorphic_identity |-> IdentityOf[n],
                polymorphic_on |-> DiscriminatorOf[n]]}}

NoRelationships == [k \in {} |-> CHOOSE r \in Relationships : TRUE]
NoProxies == [k \in {} |-> CHOOSE q \in Proxies : TRUE]

\* What a class of a hierarchy declares: nothing, the column x of either
\* type in its own table, or the relationship x.
HierarchyBodies ==
    {[columns |-> c, relationships |-> NoRelationships,
      hybrids |-> {}, proxies |-> NoProxies] :
        c \in {EmptyDict} \cup [{<<"x">>} -> TypeTags]}
    \cup
    {[columns |-> EmptyDict, relationships |-> r,
      hybrids |-> {}, proxies |-> NoProxies] :
        r \in [{<<"x">>} -> {[direction |-> "ONETOMANY", uselist |-> TRUE,
                              back_populates |-> <<"r">>, target |-> "T",
                              local_column |-> <<"f", "k">>]}]}

\* The relationships of the mapper of class n: those of its superclass's
\* mapper, and its own.
RECURSIVE MapperRelationships(_, _, _)
MapperRelationships(bs, bd, n) ==
    IF bs[n] = <<"Model">> THEN bd[n].relationships
    ELSE DictUpdate(MapperRelationships(bs, bd, bs[n][1]), bd[n].relationships)

ModelClass(bases, margs, b, rels) ==
    [bases |-> bases, has_mapper_args |-> margs.has, mapper_args |-> margs.args,
     pk |-> <<"i", "d">>,
     columns |-> b.columns, relationships |-> rels,
     hybrids |-> b.hybrids, proxies |-> b.proxies]

Hierarchies ==
    {[n \in ClassNames |-> ModelClass(bs[n], ma[n], bd[n], MapperRelationships(bs, bd, n))] :
        bs \in [A : BasesOf["A"], B : BasesOf["B"], C : BasesOf["C"]],
        ma \in [A : MapperArgsOf("A"), B : MapperArgsOf("B"), C : MapperArgsOf("C")],
        bd \in [ClassNames -> HierarchyBodies]}

\* The sequences without repetition over a set of names.
RECURSIVE Orderings(_)
Orderings(S) ==
    IF S = {} THEN {<<>>}
    ELSE UNION {{<<n>> \o o : o \in Orderings(S \ {n})} : n \in S}

\* The kwargs DataModel hands over for a model.
DefaultKwargs(n) == [collection_name |-> n, included |-> {}, excluded |-> {}]

ModelsOf(order) == [i \in 1..Len(order) |-> [model |-> order[i], kwargs |-> DefaultKwargs(order[i])]]

InitRender ==
    /\ mode = "render"
    /\ pc = "loop1"
    /\ classes \in Hierarchies
    /\ \E S \in SUBSET ClassNames : \E o \in Orderings(S) : models = ModelsOf(o)
    /\ data_model = EmptyDict
    /\ flagged_for_inheritence = <<>>
    /\ idx = 0
    /\ err = "none"
    /\ FilterUnused
    /\ ClassUnused
    /\ RegisterUnused

CurrentState == RenderState(data_model, flagged_for_inheritence, err)

\* for model, kwargs in models.items(): one iteration
RenderModel ==
    /\ mode = "render"
    /\ pc = "loop1"
    /\ idx < Len(models)
    /\ LET st == render_model(CurrentState, models[idx + 1]) IN
          /\ data_model' = st.data_model
          /\ flagged_for_inheritence' = st.flagged
          /\ err' = st.err
          /\ pc' = IF st.err # "none" THEN "raised" ELSE "loop1"
    /\ idx' = idx + 1
    /\ UNCHANGED <<mode, filterVars, classes, classVars, models, registerVars>>

\* The first loop is exhausted.
EndModels ==
    /\ mode = "render"
    /\ pc = "loop1"
    /\ idx = Len(models)
    /\ pc' = "loop2"
    /\ idx' = 0
    /\ UNCHANGED <<mode, filterVars, classes, classVars, models, data_model,
                   flagged_for_inheritence, err, registerVars>>

\* for model, inheriting_from in flagged_for_inheritence.items(): one iteration
ResolveModel ==
    /\ mode = "render"
    /\ pc = "loop2"
    /\ idx < Len(flagged_for_inheritence)
    /\ LET st == resolve_model(CurrentState, flagged_for_inheritence[idx + 1]) IN
          /\ data_model' = st.data_model
          /\ err' = st.err
          /\ pc' = IF st.err # "none" THEN "raised" ELSE "loop2"
    /\ idx' = idx + 1
    /\ UNCHANGED <<mode, filterVars, classes, classVars, models, flagged_for_inheritence,
                   registerVars>>

\* return data_model
ReturnDataModel ==
    /\ mode = "render"
    /\ pc = "loop2"
    /\ idx = Len(flagged_for_inheritence)
    /\ pc' = "returned"
    /\ UNCHANGED <<mode, filterVars, classes, classVars, renderVars, registerVars>>

NextRender == RenderModel \/ EndModels \/ ResolveModel \/ ReturnDataModel

SpecRender == InitRender /\ [][NextRender]_vars

(***************************************************************************)
(* Properties of DataModelRenderer.render                                  *)
(***************************************************************************)

\* The names of the models handed to render.
ModelNames == {models[i].model : i \in 1..Len(models)}

\* What ClassDefinitionRenderer.render yields for the entry of model n alone.
OwnRender(n) ==
    LET i == CHOOSE j \in 1..Len(models) : models[j].model = n
    IN  ClassRender(classes[n], models[i].kwargs).val

\* The model n declares a polymorphic identity.
DeclaresIdentity(n) ==
    /\ mapper_args_lookup(n).found
    /\ "polymorphic_identity" \in DOMAIN mapper_args_lookup(n).args

\* The superclass of n that is a model class, "" if there is none.
SuperclassOf(n) == parent_of_bases(classes[n].bases, 1, "")

\* c is a child of p: it declares an identity and p is its superclass.
IsChildOf(c, p) == DeclaresIdentity(c) /\ SuperclassOf(c) = p

\* C1: after composition, for every parent P and child C of P, C.attributes
\* and C.relations have every key of P's, and a key defined by both C itself
\* and P keeps C's own definition (child wins on key collision).
C1_ChildWins ==
    pc = "returned" =>
        \A c \in ModelNames, p \in ModelNames :
            IsChildOf(c, p) =>
                /\ DOMAIN data_model[p].attributes \subseteq DOMAIN data_model[c].attributes
                /\ DOMAIN data_model[p].relations \subseteq DOMAIN data_model[c].relations
                /\ \A k \in DOMAIN OwnRender(c).attributes \cap DOMAIN data_model[p].attributes :
                       data_model[c].attributes[k] = OwnRender(c).attributes[k]
                /\ \A k \in DOMAIN OwnRender(c).relations \cap DOMAIN data_model[p].relations :
                       data_model[c].relations[k] = OwnRender(c).relations[k]

\* C2: for a chain Grandparent -> Parent -> Child, after render completes
\* Child.attributes and Child.relations contain every field of Grandparent,
\* whatever the order of the three models in the input.
C2_Transitive ==
    pc = "returned" =>
        \A g \in ModelNames, p \in ModelNames, c \in ModelNames :
            IsChildOf(c, p) /\ IsChildOf(p, g) =>
                /\ DOMAIN OwnRender(g).attributes \subseteq DOMAIN data_model[c].attributes
                /\ DOMAIN OwnRender(g).relations \subseteq DOMAIN data_model[c].relations

\* C3: a model that declares a polymorphic identity while its superclass is
\* not among the models being composed makes composition raise no error, and
\* its descriptor is non-polymorphic: no polymorphic entry, and attributes
\* and relations exactly its own.
C3_MissingParentSilent ==
    \A n \in ModelNames :
        (DeclaresIdentity(n) /\ SuperclassOf(n) # "" /\ SuperclassOf(n) \notin ModelNames) =>
            /\ err = "none"
            /\ pc = "returned" =>
                  /\ "polymorphic" \notin DOMAIN data_model[n]
                  /\ data_model[n].attributes = OwnRender(n).attributes
                  /\ data_model[n].relations = OwnRender(n).relations

\* The orders in which the same models, with the same kwargs, can be handed
\* to render.
ModelOrders(ms) ==
    {[i \in 1..Len(ms) |-> ms[f[i]]] :
        f \in {g \in [1..Len(ms) -> 1..Len(ms)] :
                  \A i, j \in 1..Len(ms) : g[i] = g[j] => i = j}}

\* C4: the composed schema is the same mapping for every order in which the
\* same models are iterated.
C4_OrderIndependent ==
    pc = "returned" =>
        \A ms \in ModelOrders(models) : render(ms).data_model = data_model

\* The children of p among the models.
ChildrenOf(p) == {c \in ModelNames : IsChildOf(c, p)}

\* C7: for a parent P with discriminator d and children of distinct
\* identities, after composition P.polymorphic.on = d, P.polymorphic.identities
\* is exactly the mapping from each child's identity to that child, and every
\* child has polymorphic.parent = P.
C7_ParentRecordsChildren ==
    pc = "returned" =>
        \A p \in ModelNames :
            (/\ ChildrenOf(p) # {}
             /\ \A c1, c2 \in ChildrenOf(p) :
                    mapper_args_lookup(c1).args["polymorphic_identity"] =
                        mapper_args_lookup(c2).args["polymorphic_identity"] => c1 = c2) =>
                /\ "polymorphic" \in DOMAIN data_model[p]
                /\ "on" \in DOMAIN data_model[p].polymorphic
                /\ data_model[p].polymorphic.on = mapper_args_lookup(p).args["polymorphic_on"]
                /\ "identities" \in DOMAIN data_model[p].polymorphic
                /\ data_model[p].polymorphic.identities =
                       [i \in {mapper_args_lookup(c).args["polymorphic_identity"] :
                                  c \in ChildrenOf(p)} |->
                           CHOOSE c \in ChildrenOf(p) :
                               mapper_args_lookup(c).args["polymorphic_identity"] = i]
                /\ \A c \in ChildrenOf(p) :
                       /\ "polymorphic" \in DOMAIN data_model[c]
                       /\ "parent" \in DOMAIN data_model[c].polymorphic
                       /\ data_model[c].polymorphic.parent = p

(***************************************************************************)
(* datamodel.py: DataModel                                                 *)
(*                                                                         *)
(* register_model calls DataModelRenderer.render(model, kwargs) and        *)
(* DataModelRenderer.render_polymorphic(model, identities), which are not  *)
(* defined in render.py; both are taken from the design document.          *)
(***************************************************************************)

\* DataModelRenderer.render(model, kwargs): the descriptor of one model,
\* rendered independently of every other model.
render_descriptor(name, kw) ==
    ("methods" :> NoMethods) @@ ClassRender(classes[name], kw).val

\* The identities dict handed to render_polymorphic is the dict object
\* self.polymorphic_info[name]; the descriptor holds that object, not a copy.
IdentitiesOf(name) == [alias |-> name]

\* DataModelRenderer.render_polymorphic(model, identities): on a child
\* {parent, identity}, on a model that declares a discriminator
\* {on, identities}, both on a model that is both, else the empty dict.
render_polymorphic(name, identities) ==
    LET own == mapper_args_lookup(name)
        parent == parent_of_bases(classes[name].bases, 1, "")
        as_child ==
            IF own.found /\ "polymorphic_identity" \in DOMAIN own.args /\ parent # ""
            THEN ("parent" :> parent) @@ ("identity" :> own.args["polymorphic_identity"])
            ELSE NoInfo
        as_parent ==
            IF own.found /\ "polymorphic_on" \in DOMAIN own.args
            THEN ("on" :> own.args["polymorphic_on"]) @@ ("identities" :> identities)
            ELSE NoInfo
    IN  as_child @@ as_parent

\* self.polymorphic_info[name] on the defaultdict.
identities_of(pinfo, name) == IF name \in DOMAIN pinfo THEN pinfo[name] ELSE NoMethods

\* The state of the DataModel object.
DataModelState(dm, pinfo) == [data_model |-> dm, polymorphic_info |-> pinfo]

\* register_model, lines 93-98: the locals render and polymorphic_info;
\* reading self.polymorphic_info[name] enters name in the defaultdict.
register_locals(m) ==
    [name |-> m.model,
     render |-> render_descriptor(m.model, m.kwargs),
     polymorphic_info |-> render_polymorphic(m.model, IdentitiesOf(m.model))]

\* register_model, lines 97-103: the child is recorded under its parent.
register_record(st, loc) ==
    LET pinfo1 == DictSet(st.polymorphic_info, loc.name,
                          identities_of(st.polymorphic_info, loc.name))
    IN  IF "parent" \in DOMAIN loc.polymorphic_info
        THEN DataModelState(
                st.data_model,
                DictSet(pinfo1, loc.polymorphic_info.parent,
                        DictSet(identities_of(pinfo1, loc.polymorphic_info.parent),
                                loc.polymorphic_info.identity, loc.name)))
        ELSE DataModelState(st.data_model, pinfo1)

\* register_model, lines 105-108: the descriptor is stored under the name.
register_store(st, loc) ==
    DataModelState(
        DictSet(st.data_model, loc.name,
                IF DOMAIN loc.polymorphic_info # {}
                THEN DictSet(loc.render, "polymorphic", loc.polymorphic_info)
                ELSE loc.render),
        st.polymorphic_info)

\* register_model
register_model(st, m) ==
    register_store(register_record(st, register_locals(m)), register_locals(m))

\* The loop of init from entry i of created_apis_for on.
RECURSIVE register_models_from(_, _, _)
register_models_from(st, ms, i) ==
    IF i > Len(ms) THEN st
    ELSE register_models_from(register_model(st, ms[i]), ms, i + 1)

\* json.dumps(self.data_model), as the mapping it serializes: an identities
\* entry is written out with what the shared dict holds at that moment.
json_dumps(st) ==
    [n \in DOMAIN st.data_model |->
        LET d == st.data_model[n] IN
        IF "polymorphic" \in DOMAIN d /\ "identities" \in DOMAIN d.polymorphic
        THEN DictSet(d, "polymorphic",
                     DictSet(d.polymorphic, "identities",
                             identities_of(st.polymorphic_info,
                                           d.polymorphic.identities.alias)))
        ELSE d]

(***************************************************************************)
(* DataModel.init, again after the models changed, with requests served    *)
(***************************************************************************)

MaxInits == 2

MaxChanges == 2

\* The hierarchies registered with a DataModel: A declares the discriminator,
\* B is a child of A, C a child of A or of B.
RegisteredHierarchies ==
    {h \in Hierarchies :
        /\ h["A"].mapper_args = [polymorphic_on |-> DiscriminatorOf["A"]]
        /\ h["B"].bases = <<"A">>
        /\ h["B"].mapper_args = [polymorphic_identity |-> IdentityOf["B"]]
        /\ h["C"].bases # <<"Model">>
        /\ h["C"].mapper_args = [polymorphic_identity |-> IdentityOf["C"]]
        /\ h["A"].columns = [k \in {<<"x">>} |-> "integer"]
        /\ \A n \in {"B", "C"} : h[n].relationships = NoRelationships}

\* The identities a class may be given when its __mapper_args__ are replaced.
NewIdentities == {"d"}

\* The configurations a later create_api call may give a model.
NewKwargs(n) ==
    {[collection_name |-> n, included |-> {}, excluded |-> e] : e \in SUBSET {<<"x">>}}

NoResponse == [k \in {} |-> EmptyDict]

InitRegister ==
    /\ mode = "register"
    /\ pc = "idle"
    /\ classes \in RegisteredHierarchies
    /\ \E S \in SUBSET ClassNames : \E o \in Orderings(S) : models = ModelsOf(o)
    /\ data_model = EmptyDict
    /\ polymorphic_info = EmptyDict
    /\ local = EmptyDict
    /\ served = FALSE
    /\ response = NoResponse
    /\ before = NoResponse
    /\ inits = 0
    /\ pending = {}
    /\ again = FALSE
    /\ changes = 0
    /\ idx = 0
    /\ err = "none"
    /\ flagged_for_inheritence = <<>>
    /\ FilterUnused
    /\ ClassUnused

CurrentDataModel == DataModelState(data_model, polymorphic_info)

registerIdle == <<filterVars, classVars, flagged_for_inheritence, err>>

\* attach_listener, wrapper(model) for the DataModel: data_model.init(app)
\* is entered.
EnterInit ==
    /\ mode = "register"
    /\ pc = "idle"
    /\ inits < MaxInits
    /\ pc' = "register"
    /\ idx' = 0
    /\ inits' = inits + 1
    /\ before' = json_dumps(CurrentDataModel)
    /\ response' = NoResponse
    /\ UNCHANGED <<mode, registerIdle, classes, models, data_model, polymorphic_info,
                   local, served, pending, again, changes>>

\* register_model up to line 103, for the next entry of created_apis_for.
RegisterRecord ==
    /\ mode = "register"
    /\ pc = "register"
    /\ idx < Len(models)
    /\ local' = register_locals(models[idx + 1])
    /\ polymorphic_info' = register_record(CurrentDataModel, local').polymorphic_info
    /\ pc' = "store"
    /\ UNCHANGED <<mode, registerIdle, classes, models, data_model, idx, served,
                   response, before, inits, pending, again, changes>>

\* register_model from line 105 on.
RegisterStore ==
    /\ mode = "register"
    /\ pc = "store"
    /\ data_model' = register_store(CurrentDataModel, local).data_model
    /\ local' = EmptyDict
    /\ idx' = idx + 1
    /\ pc' = "register"
    /\ pending' = pending \ {local.name}
    /\ again' = (again \/ local.name \in DOMAIN data_model)
    /\ UNCHANGED <<mode, registerIdle, classes, models, polymorphic_info, served,
                   response, before, inits, changes>>

\* init returns; the wrapper creates the blueprint with the preprocessors.
LeaveInit ==
    /\ mode = "register"
    /\ pc = "register"
    /\ idx = Len(models)
    /\ pc' = "idle"
    /\ served' = TRUE
    /\ UNCHANGED <<mode, registerIdle, classes, models, data_model, polymorphic_info,
                   local, idx, response, before, inits, pending, again, changes>>

\* intercept_and_return_datamodel, on a request thread.
InterceptAndReturn ==
    /\ mode = "register"
    /\ served
    /\ response' = json_dumps(CurrentDataModel)
    /\ UNCHANGED <<mode, pc, registerIdle, classes, models, data_model,
                   polymorphic_info, local, idx, served, before, inits, pending, again,
                   changes>>

\* attach_listener, wrapper(model) for a model that has an API already:
\* register_model runs with the api_info created_apis_for holds, and only then
\* does create_blueprint build the new API and record its api_info.
CreateApiAgain ==
    /\ mode = "register"
    /\ pc = "idle"
    /\ inits >= 1
    /\ changes < MaxChanges
    /\ changes' = changes + 1
    /\ \E i \in 1..Len(models) : \E kw \in NewKwargs(models[i].model) :
          /\ kw # models[i].kwargs
          /\ LET st == register_model(CurrentDataModel, models[i]) IN
                /\ data_model' = st.data_model
                /\ polymorphic_info' = st.polymorphic_info
          /\ models' = [models EXCEPT ![i].kwargs = kw]
          /\ pending' = pending \ {models[i].model}
          /\ again' = (again \/ models[i].model \in DOMAIN data_model)
    /\ UNCHANGED <<mode, pc, registerIdle, classes, local, idx, served, response,
                   before, inits>>

\* The __mapper_args__ of a child class are replaced: another identity.
ChangeIdentity ==
    /\ mode = "register"
    /\ pc = "idle"
    /\ changes < MaxChanges
    /\ changes' = changes + 1
    /\ \E n \in {"B", "C"} : \E v \in NewIdentities \cup {IdentityOf[n]} :
          /\ v # classes[n].mapper_args["polymorphic_identity"]
          /\ \A o \in {"B", "C"} \ {n} : classes[o].mapper_args["polymorphic_identity"] # v
          /\ classes' = [classes EXCEPT ![n].mapper_args = [polymorphic_identity |-> v]]
          /\ pending' = pending \cup ({n} \cap DOMAIN data_model)
    /\ UNCHANGED <<mode, pc, registerIdle, models, data_model, polymorphic_info,
                   local, idx, served, response, before, inits, again>>

NextRegister ==
    \/ EnterInit
    \/ RegisterRecord
    \/ RegisterStore
    \/ LeaveInit
    \/ InterceptAndReturn
    \/ CreateApiAgain
    \/ ChangeIdentity

SpecRegister == InitRegister /\ [][NextRegister]_vars

(***************************************************************************)
(* Properties of DataModel                                                 *)
(***************************************************************************)

\* The schema composed from scratch for the models as they are now.
FromScratch ==
    json_dumps(register_models_from(DataModelState(EmptyDict, EmptyDict), models, 1))

AfterInit ==
    json_dumps(register_models_from(
        IF pc = "store" THEN register_store(CurrentDataModel, local) ELSE CurrentDataModel,
        models,
        IF pc = "store" THEN idx + 2 ELSE idx + 1))

C9_OptionalFieldsOmitted ==
    (mode = "class" /\ pc = "returned" /\ rendered.err = "none") =>
        /\ \A k \in DOMAIN rendered.val.relations :
              LET entry == rendered.val.relations[k] IN
              /\ "backref" \in DOMAIN entry => entry.backref # None
              /\ "local_column" \in DOMAIN entry => entry.relation_type = "MANYTOONE"
              /\ "is_proxy" \in DOMAIN entry =>
                    /\ k \in DOMAIN classes["A"].proxies
                    /\ "backref" \notin DOMAIN entry
                    /\ "local_column" \notin DOMAIN entry
        /\ "polymorphic" \notin DOMAIN rendered.val

\* C10: in a descriptor the key sets of attributes and relations are
\* disjoint after proxy resolution.
C10_AttributesRelationsDisjoint ==
    (mode = "class" /\ pc = "returned" /\ rendered.err = "none") =>
        DOMAIN rendered.val.attributes \cap DOMAIN rendered.val.relations = {}

(***************************************************************************)
(* The attribute filter on its own                                         *)
(***************************************************************************)

MaxNameLen == 3

Alphabet == {"a", "b", "."}

RECURSIVE StringsOfLen(_)
StringsOfLen(n) ==
    IF n = 0 THEN {<<>>}
    ELSE {Append(s, ch) : s \in StringsOfLen(n - 1), ch \in Alphabet}

FilterNames == UNION {StringsOfLen(n) : n \in 0..MaxNameLen}

FilterEntries == {<<"a">>, <<"b">>, <<"a", ".", "b">>}

InitFilter ==
    /\ mode = "filter"
    /\ pc = "call"
    /\ included \in SUBSET FilterEntries
    /\ excluded \in SUBSET FilterEntries
    /\ column \in FilterNames
    /\ valid = FALSE
    /\ classes = EmptyDict
    /\ ClassUnused
    /\ RenderUnused
    /\ RegisterUnused

CallIsValid ==
    /\ mode = "filter"
    /\ pc = "call"
    /\ valid' = is_valid(included, excluded, column)
    /\ pc' = "returned"
    /\ UNCHANGED <<mode, included, excluded, column, classes, classVars, renderVars, registerVars>>

NextFilter == CallIsValid

SpecFilter == InitFilter /\ [][NextFilter]_vars

(***************************************************************************)
(* Properties of the attribute filter                                      *)
(***************************************************************************)

\* The suffixes of s.
Suffixes(s) == {SubSeq(s, i, Len(s)) : i \in 1..(Len(s) + 1)}

\* The final dot-separated segment of s: the suffix without a dot that is
\* the whole of s or is preceded by a dot.
FinalSegment(s) ==
    CHOOSE t \in Suffixes(s) :
        /\ \A i \in 1..Len(t) : t[i] # "."
        /\ Len(t) = Len(s) \/ s[Len(s) - Len(t)] = "."

\* C8: is_valid looks only at the final dot-separated segment of the name; it
\* is false if excluded is non-empty and contains the segment, false if
\* included is non-empty and does not contain it, and true otherwise. Every
\* name is valid when both are empty; a name in both is invalid.
C8_IsValid ==
    pc = "returned" /\ mode = "filter" =>
        LET seg == FinalSegment(column) IN
        /\ (excluded # {} /\ seg \in excluded) => ~valid
        /\ (included # {} /\ seg \notin included) => ~valid
        /\ (~(excluded # {} /\ seg \in excluded)
            /\ ~(included # {} /\ seg \notin included)) => valid
        /\ (included = {} /\ excluded = {}) => valid
        /\ (seg \in included /\ seg \in excluded) => ~valid

\* A dotted name whose final segment is in both lists has been judged.
C8_Witness ==
    /\ mode = "filter"
    /\ pc = "returned"
    /\ Len(split(column)) > 1
    /\ FinalSegment(column) \in included \cap excluded
    /\ split(column)[1] \notin included \cup excluded
    /\ ~valid

====
